---- MODULE Spec2Model ----
(***************************************************************************)
(* Model of the data-preparation pipeline of strategic-financial-insight   *)
(* (support/load_data.py, support/supporting_funcs.py).                    *)
(*                                                                         *)
(* A DataFrame is a record [columns, rows]: columns is the ordered         *)
(* sequence of column labels, rows the sequence of rows in positional      *)
(* (RangeIndex) order, each row a function from column label to cell.      *)
(* A cell is a sequence: <<>> is NaN/null, <<s>> a string, <<n, d>> the    *)
(* number n/d in lowest terms (d > 0), <<1, 0>> and <<-1, 0>> are +inf and  *)
(* -inf.  Float arithmetic is modelled by exact rational arithmetic with   *)
(* the IEEE special cases x/0 = +-inf, 0/0 = NaN, NaN propagating.         *)
(***************************************************************************)
EXTENDS Integers, Sequences, FiniteSets, TLC

VARIABLES pc, out, norm, files, data_all, cpi_df, emp_data, gps_data,
          ipi_data, merge1, input, all_data, arg, stdout, search, result

vars == <<pc, out, norm, files, data_all, cpi_df, emp_data, gps_data,
          ipi_data, merge1, input, all_data, arg, stdout, search, result>>

-----------------------------------------------------------------------------
(* Cells and float arithmetic                                              *)

NaN == <<>>

Num(n) == <<n, 1>>

Str(s) == <<s>>

isnull(x) == x = NaN

Abs(n) == IF n < 0 THEN -n ELSE n

Sign(n) == IF n < 0 THEN -1 ELSE IF n > 0 THEN 1 ELSE 0

RECURSIVE GCD(_, _)
GCD(a, b) == IF b = 0 THEN a ELSE GCD(b, a % b)

\* n/d as a float: 0/0 is NaN, x/0 is +-inf, otherwise the reduced fraction
Ratio(n, d) ==
    IF d = 0
    THEN IF n = 0 THEN NaN ELSE <<Sign(n), 0>>
    ELSE LET s == IF d < 0 THEN -1 ELSE 1
             g == GCD(Abs(n), Abs(d))
         IN  <<(s * n) \div g, (s * d) \div g>>

Mul(a, b) == IF isnull(a) \/ isnull(b) THEN NaN ELSE Ratio(a[1] * b[1], a[2] * b[2])

Div(a, b) == IF isnull(a) \/ isnull(b) THEN NaN ELSE Ratio(a[1] * b[2], a[2] * b[1])

Add(a, b) ==
    IF isnull(a) \/ isnull(b) THEN NaN
    ELSE IF a[2] = 0 /\ b[2] = 0
         THEN IF a[1] = b[1] THEN a ELSE NaN
         ELSE Ratio(a[1] * b[2] + b[1] * a[2], a[2] * b[2])

Neg(a) == IF isnull(a) THEN NaN ELSE <<-a[1], a[2]>>

Sub(a, b) == Add(a, Neg(b))

\* float comparisons: every comparison with NaN is False
Lt(a, b) == ~isnull(a) /\ ~isnull(b) /\ a # b /\ a[1] * b[2] < b[1] * a[2]

Le(a, b) == ~isnull(a) /\ ~isnull(b) /\ (a = b \/ a[1] * b[2] < b[1] * a[2])

Ge(a, b) == Le(b, a)

-----------------------------------------------------------------------------
(* DataFrames                                                              *)

DataFrame(columns, rows) == [columns |-> columns, rows |-> rows]

Range(s) == {s[i] : i \in 1..Len(s)}

NRows(df) == Len(df.rows)

\* df[col] = values, a cell per row (a new column is appended on the right)
SetColumn(df, col, values) ==
    DataFrame(IF col \in Range(df.columns) THEN df.columns ELSE Append(df.columns, col),
              [i \in 1..NRows(df) |->
                  [c \in DOMAIN df.rows[i] \cup {col} |->
                      IF c = col THEN values[i] ELSE df.rows[i][c]]])

-----------------------------------------------------------------------------
(* Size Classifier: supporting_funcs.categorize_size                       *)

\* wrong threshold comparison (mutation of category)
category_strict(data) ==
    LET pop == data["Population"]
    IN  IF Lt(pop, Num(2500)) THEN [data EXCEPT !["size"] = Str("rural")]
        ELSE IF Lt(Num(2500), pop) /\ Lt(pop, Num(50000))
             THEN [data EXCEPT !["size"] = Str("non-urban")]
        ELSE IF Ge(pop, Num(50000)) THEN [data EXCEPT !["size"] = Str("urban")]
        ELSE [data EXCEPT !["size"] = NaN]

\* a missing population is also zeroed (mutation of category)
category_zero_missing(data) ==
    LET pop == data["Population"]
    IN  IF Lt(pop, Num(2500)) THEN [data EXCEPT !["size"] = Str("rural")]
        ELSE IF Le(Num(2500), pop) /\ Lt(pop, Num(50000))
             THEN [data EXCEPT !["size"] = Str("non-urban")]
        ELSE IF Ge(pop, Num(50000)) THEN [data EXCEPT !["size"] = Str("urban")]
        ELSE [data EXCEPT !["size"] = NaN, !["Population"] = Num(0)]

\* the row helper of categorize_size
category(data) ==
    LET pop == data["Population"]
    IN  IF Lt(pop, Num(2500)) THEN [data EXCEPT !["size"] = Str("rural")]
        ELSE IF Le(Num(2500), pop) /\ Lt(pop, Num(50000))
             THEN [data EXCEPT !["size"] = Str("non-urban")]
        ELSE IF Ge(pop, Num(50000)) THEN [data EXCEPT !["size"] = Str("urban")]
        ELSE [data EXCEPT !["size"] = NaN]

\* the column is initialised with NaN (mutation of categorize_size_input)
categorize_size_input_nan(df) == SetColumn(df, "size", [i \in 1..NRows(df) |-> NaN])

\* input['size'] = 'na': the caller's frame after the call
categorize_size_input(df) == SetColumn(df, "size", [i \in 1..NRows(df) |-> Str("na")])

\* input.apply(category, axis=1): the frame categorize_size returns
categorize_size(df) ==
    LET marked == categorize_size_input(df)
    IN  DataFrame(marked.columns, [i \in 1..NRows(marked) |-> category(marked.rows[i])])

-----------------------------------------------------------------------------
(* Column Catalog: col_only.csv, scaled down to nine entries.  The code    *)
(* selects the groups by position in the catalog; the positions below keep *)
(* the layout of those ranges: the two totals (18 and 144 in the code) sit  *)
(* next to the revenue and the expenditure range, belong to the rate group  *)
(* and to the financial range, and the crime counts (594..609) lie outside  *)
(* the financial range.                                                    *)

names == <<"Name", "FIPS_County", "Year4", "Population", "Total_Revenue",
           "Property_Tax", "Total_Expenditure", "Police_Prot_Direct_Exp",
           "Total_Crime">>

iloc(s, idx) == [i \in 1..Len(idx) |-> s[idx[i]]]

exp_cols == iloc(names, <<8>>)

rev_cols == iloc(names, <<6>>)

rate_cols == iloc(names, <<9, 7, 5>>)

field_names == iloc(names, <<1, 3, 5, 6, 7, 8>>)

-----------------------------------------------------------------------------
(* Feature Normalizer: supporting_funcs.normalize                          *)

\* the zero is kept (mutation of replace)
replace_keep(x) == x

\* Series.replace(0, np.nan)
replace(x) == IF x = Num(0) THEN NaN ELSE x

\* a missing value takes the last valid value before it (mutation of interpolate)
interpolate_ffill(s) ==
    [k \in 1..Len(s) |->
        IF ~isnull(s[k]) THEN s[k]
        ELSE LET before == {i \in 1..(k - 1) : ~isnull(s[i])}
             IN  IF before = {} THEN NaN
                 ELSE s[CHOOSE x \in before : \A y \in before : y <= x]]

\* Series.interpolate(): linear in row position, filling forward only;
\* NaN before the first valid value stays, NaN after the last valid value
\* takes the last valid value
interpolate(s) ==
    [k \in 1..Len(s) |->
        IF ~isnull(s[k]) THEN s[k]
        ELSE LET before == {i \in 1..(k - 1) : ~isnull(s[i])}
                 after  == {j \in (k + 1)..Len(s) : ~isnull(s[j])}
             IN  IF before = {} THEN NaN
                 ELSE LET i == CHOOSE x \in before : \A y \in before : y <= x
                      IN  IF after = {} THEN s[i]
                          ELSE LET j == CHOOSE x \in after : \A y \in after : x <= y
                               IN  Add(s[i], Mul(Sub(s[j], s[i]), Ratio(k - i, j - i)))]

\* the ratio is taken the wrong way round (mutation of rescale)
rescale_inverted(x, d, scale) == Mul(Div(d, x), Num(scale))

\* (input[item] / input[denom]) * scale
rescale(x, d, scale) == Mul(Div(x, d), Num(scale))

\* the ratio also replaces the source field (mutation of derive)
RECURSIVE derive_compound(_, _, _, _, _)
derive_compound(df, items, denom, suffix, scale) ==
    IF items = <<>> THEN df
    ELSE LET item == Head(items)
             ratio == [i \in 1..NRows(df) |->
                          rescale(df.rows[i][item], df.rows[i][denom], scale)]
             next == SetColumn(SetColumn(df, item \o suffix, ratio), item, ratio)
         IN  derive_compound(next, Tail(items), denom, suffix, scale)

\* for item in items: input[item + suffix] = (input[item] / input[denom]) * scale
RECURSIVE derive(_, _, _, _, _)
derive(df, items, denom, suffix, scale) ==
    IF items = <<>> THEN df
    ELSE LET item == Head(items)
             next == SetColumn(df, item \o suffix,
                        [i \in 1..NRows(df) |->
                            rescale(df.rows[i][item], df.rows[i][denom], scale)])
         IN  derive(next, Tail(items), denom, suffix, scale)

\* the frame normalize leaves in its argument and returns (the same object)
normalize(df) ==
    LET te == SetColumn(df, "Total_Expenditure",
                        [i \in 1..NRows(df) |-> replace(df.rows[i]["Total_Expenditure"])])
        e == derive(te, exp_cols, "Total_Expenditure", "_PerExp", 100)
        tr == SetColumn(e, "Total_Revenue",
                        [i \in 1..NRows(e) |-> replace(e.rows[i]["Total_Revenue"])])
        r == derive(tr, rev_cols, "Total_Revenue", "_PerRev", 100)
        p == SetColumn(r, "Population",
                       interpolate([i \in 1..NRows(r) |-> replace(r.rows[i]["Population"])]))
    IN  derive(p, rate_cols, "Population", "_100k", 100000)

-----------------------------------------------------------------------------
(* Joins: pandas.merge / DataFrame.merge                                   *)

\* the columns the right frame adds: a key column of the same label as the
\* left key appears once
NewColumns(left, right) == SelectSeq(right.columns, LAMBDA c : c \notin Range(left.columns))

JoinRow(l, r, added) == [c \in DOMAIN l \cup Range(added) |-> IF c \in DOMAIN l THEN l[c] ELSE r[c]]

NullRow(cols) == [c \in Range(cols) |-> NaN]

\* the right rows whose key cells equal those of the left row l, in right order
Matches(l, right, left_on, right_on) ==
    SelectSeq(right.rows, LAMBDA r : \A k \in 1..Len(left_on) : l[left_on[k]] = r[right_on[k]])

RECURSIVE MergeRows(_, _, _, _, _, _)
MergeRows(lrows, right, left_on, right_on, how, added) ==
    IF lrows = <<>> THEN <<>>
    ELSE LET l == Head(lrows)
             m == Matches(l, right, left_on, right_on)
             these == IF m = <<>>
                      THEN IF how = "left" THEN <<JoinRow(l, NullRow(added), added)>> ELSE <<>>
                      ELSE [i \in 1..Len(m) |-> JoinRow(l, m[i], added)]
         IN  these \o MergeRows(Tail(lrows), right, left_on, right_on, how, added)

\* left.merge(right, left_on, right_on, how): left row order, one output row
\* per matching pair; how = "left" keeps a left row without a match
merge(left, right, left_on, right_on, how) ==
    LET added == NewColumns(left, right)
    IN  DataFrame(left.columns \o added,
                  MergeRows(left.rows, right, left_on, right_on, how, added))

-----------------------------------------------------------------------------
(* Inflation Adjuster: supporting_funcs.conv, gen_real_dollars             *)

CPI_OCT_2019 == Ratio(257346, 1000)

\* the reference index is subtracted from the historical one (mutation of conv)
conv_reversed(init_val) == Add(Num(1), Div(Sub(init_val, CPI_OCT_2019), init_val))

conv(init_val) == Add(Num(1), Div(Sub(CPI_OCT_2019, init_val), init_val))

\* df.loc[:, cols] and df[cols]
loc(df, cols) ==
    DataFrame(cols, [i \in 1..NRows(df) |-> [c \in Range(cols) |-> df.rows[i][c]]])

\* df.drop(columns = cols)
drop(df, cols) == loc(df, SelectSeq(df.columns, LAMBDA c : c \notin cols))

\* pd.concat([a, b], axis = 1) of two frames with a RangeIndex: rows are
\* aligned on the index, a frame that has no row at an index gives NaN
concat(a, b) ==
    LET n == IF NRows(a) > NRows(b) THEN NRows(a) ELSE NRows(b)
    IN  DataFrame(a.columns \o b.columns,
                  [i \in 1..n |->
                      [c \in Range(a.columns) \cup Range(b.columns) |->
                          IF c \in Range(b.columns)
                          THEN IF i <= NRows(b) THEN b.rows[i][c] ELSE NaN
                          ELSE IF i <= NRows(a) THEN a.rows[i][c] ELSE NaN]])

\* the inner join drops the rows of an unmatched year (mutation of cpi_merge)
cpi_merge_inner(finan_df, cpi) == merge(finan_df, cpi, <<"Year4">>, <<"Year">>, "inner")

\* pd.merge(finan_df, cpi_df, left_on='Year4', right_on='Year', how='left')
cpi_merge(finan_df, cpi) == merge(finan_df, cpi, <<"Year4">>, <<"Year">>, "left")

\* Year4 is left among the columns to scale (mutation of dropped)
dropped_without_year == {"Name", "Year", "Annual"}

\* the columns taken out of the merged frame before scaling
dropped == {"Name", "Year4", "Year", "Annual"}

\* the frame gen_real_dollars returns for the municipal table d and CPI table c
gen_real_dollars(d, c) ==
    LET cpi == SetColumn(loc(c, <<"Year", "Annual">>), "Inflation",
                         [i \in 1..NRows(c) |-> conv(c.rows[i]["Annual"])])
        finan_df == loc(d, field_names)
        merged == cpi_merge(finan_df, cpi)
        tmp_df == drop(merged, dropped)
        finan_fields == SelectSeq(tmp_df.columns, LAMBDA f : f # "Inflation")
        scaled == DataFrame(finan_fields,
                     [i \in 1..NRows(tmp_df) |->
                         [f \in Range(finan_fields) |->
                             Mul(tmp_df.rows[i][f], tmp_df.rows[i]["Inflation"])]])
        real_df == concat(drop(d, Range(finan_fields)), scaled)
    IN  loc(real_df, names)

-----------------------------------------------------------------------------
(* Search utilities: supporting_funcs.search_all                          *)

Uppercase == "ABCDEFGHIJKLMNOPQRSTUVWXYZ"

Lowercase == "abcdefghijklmnopqrstuvwxyz"

Char(s, i) == SubSeq(s, i, i)

\* the letter case is kept (mutation of ignorecase)
ignorecase_kept(ch) == ch

\* the (?i) flag: a letter is compared by its lower-case form
ignorecase(ch) ==
    IF \E i \in 1..Len(Uppercase) : Char(Uppercase, i) = ch
    THEN Char(Lowercase, CHOOSE i \in 1..Len(Uppercase) : Char(Uppercase, i) = ch)
    ELSE ch

\* whether regex, a pattern of literal characters and ".", matches label
\* from position k on
RECURSIVE match_at(_, _, _)
match_at(regex, label, k) ==
    IF regex = "" THEN TRUE
    ELSE IF k > Len(label) THEN FALSE
    ELSE /\ \/ Char(regex, 1) = "."
            \/ ignorecase(Char(regex, 1)) = ignorecase(Char(label, k))
         /\ match_at(SubSeq(regex, 2, Len(regex)), label, k + 1)

\* re.search('(?i)' + regex, label) is not None
re_search(regex, label) == \E k \in 1..(Len(label) + 1) : match_at(regex, label, k)

\* data.filter(regex = ...): the columns whose label the pattern is found in,
\* in column order
filter(data, regex) ==
    loc(data, SelectSeq(data.columns, LAMBDA c : re_search(regex, c)))

\* data.filter(regex='(?i)' + search).columns.get_values()
search_all(data, pattern) == filter(data, pattern).columns

-----------------------------------------------------------------------------
(* Input tables                                                            *)

MaxSizeRows == 2
MaxNormRows == 3
MaxInflRows == 2
MaxCpiRows == 2
MaxFinRows == 2
MaxEmpRows == 2
MaxGpsRows == 2
MaxPipeRows == 2
MaxTailRows == 2
MaxSearchCols == 2
MaxSearchRows == 1

Cities == <<"Boise", "Nampa", "Eagle", "Kuna">>

City(i) == Str(Cities[((i - 1) % Len(Cities)) + 1])

emp_columns == <<"County FIPS Code", "County FIPS Year", "Employed">>

gps_columns == <<"Name", "latitude", "longitude">>

NoFrame == DataFrame(<<>>, <<>>)

NoFiles == [f \in {"ipi_real2019.csv", "ipi_final.csv"} |-> NoFrame]

\* a municipal row with the catalog's columns
Municipal(name, fips, year, pop, tr, ptax, te, pexp, crime) ==
    [c \in Range(names) |->
        CASE c = "Name" -> name
          [] c = "FIPS_County" -> fips
          [] c = "Year4" -> year
          [] c = "Population" -> pop
          [] c = "Total_Revenue" -> tr
          [] c = "Property_Tax" -> ptax
          [] c = "Total_Expenditure" -> te
          [] c = "Police_Prot_Direct_Exp" -> pexp
          [] c = "Total_Crime" -> crime]

\* all sequences of length 0..n over the set S
SeqUpTo(S, n) == UNION {[1..k -> S] : k \in 0..n}

PopDom == {NaN, Num(-1), Num(0), Num(2499), Ratio(4999, 2), Num(2500), Num(49999),
           Num(50000), Num(100000)}

\* tables for categorize_size: any population, with or without an earlier size column
SizeTables ==
    LET plain == {DataFrame(names,
                     [i \in 1..Len(p) |->
                         Municipal(City(i), Num(1), Num(2000), p[i], Num(1000), Num(125),
                                   Num(1000), Num(250), Num(50))]) :
                  p \in SeqUpTo(PopDom, MaxSizeRows)}
    IN  plain \cup {SetColumn(t, "size", [i \in 1..NRows(t) |-> Str("urban")]) : t \in plain}

\* rows for normalize: every combination of zero and non-zero totals with a
\* null, zero or valid population, and rows with a null expenditure item
NormRowDom ==
    {Municipal(Str("Boise"), Num(1), Num(2000), pop, tr, Num(125), te, Num(250), Num(50)) :
        pop \in {NaN, Num(0), Num(50000), Num(100000)},
        tr \in {Num(0), Num(500)},
        te \in {Num(0), Num(1000)}}
    \cup
    {Municipal(Str("Boise"), Num(1), Num(2000), Num(100000), Num(500), NaN, te, NaN, NaN) :
        te \in {Num(0), Num(1000)}}

NormTables == {DataFrame(names, r) : r \in SeqUpTo(NormRowDom, MaxNormRows)}

\* tables leaving the employment merge, for the stages after it
TailTables == {DataFrame(names, r) : r \in SeqUpTo(NormRowDom, MaxTailRows)}

YearDom == {Num(2000), Num(2001)}

AnnualDom == {Ratio(257346, 1000), Ratio(128673, 1000), Ratio(172200, 1000)}

CpiTables ==
    {DataFrame(<<"Year", "Annual">>, r) :
        r \in SeqUpTo({[Year |-> y, Annual |-> a] : y \in YearDom, a \in AnnualDom}, MaxCpiRows)}

InflTables ==
    {DataFrame(names,
        [i \in 1..Len(r) |->
            Municipal(City(i), Num(1), r[i][1], Num(3000), r[i][2], Num(40), Num(1000),
                      Num(250), Num(50))]) :
     r \in SeqUpTo((YearDom \cup {Num(2002)}) \X {NaN, Num(100)}, MaxInflRows)}

\* adjusted rows for the merges: two spellings of a name, and keys that
\* differ in the county only or in the year only
FinTables ==
    {DataFrame(names,
        [i \in 1..Len(r) |->
            Municipal(r[i][1], r[i][2], r[i][3], Num(3000), Num(500), Num(40), Num(1000),
                      Num(250), Num(50))]) :
     r \in SeqUpTo({<<Str("Boise"), Num(1), Num(2000)>>, <<Str("boise"), Num(1), Num(2000)>>,
                     <<Str("Boise"), Num(2), Num(2000)>>, <<Str("Boise"), Num(1), Num(2001)>>},
                    MaxFinRows)}

\* employment and geographic rows carry their position, so that two rows
\* with the same key remain distinguishable
EmpTables ==
    {DataFrame(emp_columns,
        [i \in 1..Len(r) |->
            [c \in Range(emp_columns) |->
                CASE c = "County FIPS Code" -> r[i][1]
                  [] c = "County FIPS Year" -> r[i][2]
                  [] c = "Employed" -> Num(10 * i)]]) :
     r \in SeqUpTo({<<Num(1), Num(2000)>>, <<Num(1), Num(2001)>>, <<Num(2), Num(2000)>>},
                    MaxEmpRows)}

GpsTables ==
    {DataFrame(gps_columns,
        [i \in 1..Len(r) |->
            [c \in Range(gps_columns) |->
                CASE c = "Name" -> r[i]
                  [] c = "latitude" -> Num(40 + i)
                  [] c = "longitude" -> Num(-110 - i)]]) :
     r \in SeqUpTo({Str("Boise"), Str("boise")}, MaxGpsRows)}

PipeTables ==
    {DataFrame(names,
        [i \in 1..Len(r) |->
            Municipal(Str("Boise"), Num(1), r[i][1], r[i][2], Num(500), Num(40), Num(1000),
                      Num(250), Num(50))]) :
     r \in SeqUpTo(YearDom \X {Num(0), Num(3000)}, MaxPipeRows)}

PipeCpi ==
    {DataFrame(<<"Year", "Annual">>, r) :
        r \in SeqUpTo({[Year |-> Num(2000), Annual |-> a] :
                          a \in {Ratio(257346, 1000), Ratio(128673, 1000)}}, 1)}

PipeEmp ==
    {DataFrame(emp_columns,
        [i \in 1..Len(r) |->
            [c \in Range(emp_columns) |->
                CASE c = "County FIPS Code" -> Num(1)
                  [] c = "County FIPS Year" -> r[i]
                  [] c = "Employed" -> Num(10)]]) :
     r \in SeqUpTo(YearDom, 1)}

PipeGps ==
    {DataFrame(gps_columns,
        [i \in 1..Len(r) |->
            [c \in Range(gps_columns) |->
                CASE c = "Name" -> r[i]
                  [] c = "latitude" -> Num(43)
                  [] c = "longitude" -> Num(-116)]]) :
     r \in SeqUpTo({Str("Boise"), Str("Eagle")}, 1)}

-----------------------------------------------------------------------------
(* load_data.all_data(out, norm), one action per stage.  pc is the stage   *)
(* about to run; stdout is the sequence of lines printed so far; search    *)
(* and result are the pattern search_all last received and what it        *)
(* returned;                                                               *)
(* data_all, cpi_df, emp_data and gps_data are the source tables as read   *)
(* from their files; input is the frame object that normalize and          *)
(* categorize_size receive (both assign to it in place), all_data the      *)
(* local name of all_data(), arg the value the last callee received, files *)
(* the CSV files written.                                                  *)

\* normalization is entered whatever the flag (mutation of after_merge)
after_merge_always(n) == "normalize"

\* if norm: ... , else straight on to the size classification
after_merge(n) == IF n THEN "normalize" ELSE "categorize_size"

\* if out: ... , else straight on to the return
after_size(o) == IF o THEN "to_csv" ELSE "return"

\* print("Loading IPI data")
Start ==
    /\ pc = "start"
    /\ stdout' = Append(stdout, "Loading IPI data")
    /\ pc' = "gen_real_dollars"
    /\ UNCHANGED <<search, result, out, norm, files, data_all, cpi_df, emp_data, gps_data, ipi_data,
                   merge1, input, all_data, arg>>

\* the employment merge keeps the rows without a match (mutation of emp_merge)
emp_merge_left(ipi, emp) ==
    merge(ipi, emp, <<"FIPS_County", "Year4">>,
          <<"County FIPS Code", "County FIPS Year">>, "left")

\* ipi_data.merge(emp_data, left_on=['FIPS_County', 'Year4'],
\*                right_on=['County FIPS Code', 'County FIPS Year'])
emp_merge(ipi, emp) ==
    merge(ipi, emp, <<"FIPS_County", "Year4">>,
          <<"County FIPS Code", "County FIPS Year">>, "inner")

\* the geographic merge drops the rows without a match (mutation of gps_merge)
gps_merge_inner(m, gps) == merge(m, gps, <<"Name">>, <<"Name">>, "inner")

\* merge1.merge(gps_data, how='left', on='Name')
gps_merge(m, gps) == merge(m, gps, <<"Name">>, <<"Name">>, "left")

\* ipi_data = funcs.gen_real_dollars(); o is gen_real_dollars' own out flag
GenRealDollars(o) ==
    /\ pc = "gen_real_dollars"
    /\ ipi_data' = gen_real_dollars(data_all, cpi_df)
    /\ files' = IF o THEN [files EXCEPT !["ipi_real2019.csv"] = ipi_data'] ELSE files
    /\ stdout' = Append(stdout, "Adjusting for Inflation")
    /\ pc' = "load"
    /\ UNCHANGED <<search, result, out, norm, data_all, cpi_df, emp_data, gps_data, merge1, input,
                   all_data, arg>>

\* gps_data = gps(); emp_data = emp()
Load ==
    /\ pc = "load"
    /\ stdout' = stdout \o <<"Getting GPS coordinates", "Getting employment data">>
    /\ pc' = "merge1"
    /\ UNCHANGED <<search, result, out, norm, files, data_all, cpi_df, emp_data, gps_data, ipi_data,
                   merge1, input, all_data, arg>>

\* merge1 = ipi_data.merge(emp_data, left_on=[...], right_on=[...])
Merge1 ==
    /\ pc = "merge1"
    /\ merge1' = emp_merge(ipi_data, emp_data)
    /\ stdout' = Append(stdout, "Merging IPI with employment data")
    /\ pc' = "merge2"
    /\ UNCHANGED <<search, result, out, norm, files, data_all, cpi_df, emp_data, gps_data, ipi_data,
                   input, all_data, arg>>

\* all_data = merge1.merge(gps_data, how='left', on='Name'); if norm: ...
Merge2 ==
    /\ pc = "merge2"
    /\ input' = gps_merge(merge1, gps_data)
    /\ all_data' = input'
    /\ stdout' = Append(stdout, "Merging with GPS data")
    /\ pc' = after_merge(norm)
    /\ UNCHANGED <<search, result, out, norm, files, data_all, cpi_df, emp_data, gps_data, ipi_data,
                   merge1, arg>>

\* all_data = funcs.normalize(all_data)
Normalize ==
    /\ pc = "normalize"
    /\ arg' = input
    /\ input' = normalize(input)
    /\ all_data' = input'
    /\ stdout' = Append(stdout, "Creating normalized features (per-capita, percentages)")
    /\ pc' = "categorize_size"
    /\ UNCHANGED <<search, result, out, norm, files, data_all, cpi_df, emp_data, gps_data, ipi_data,
                   merge1>>

\* all_data = funcs.categorize_size(all_data); if out: ...
CategorizeSize ==
    /\ pc = "categorize_size"
    /\ arg' = input
    /\ input' = categorize_size_input(input)
    /\ all_data' = categorize_size(input)
    /\ stdout' = Append(stdout, "Categorizing city sizes")
    /\ pc' = after_size(out)
    /\ UNCHANGED <<search, result, out, norm, files, data_all, cpi_df, emp_data, gps_data, ipi_data,
                   merge1>>

\* all_data.to_csv("ipi_final.csv", index=False)
ToCsv ==
    /\ pc = "to_csv"
    /\ files' = [files EXCEPT !["ipi_final.csv"] = all_data]
    /\ stdout' = Append(stdout, "Writing complete dataset to ipi_final.csv")
    /\ pc' = "return"
    /\ UNCHANGED <<search, result, out, norm, data_all, cpi_df, emp_data, gps_data, ipi_data, merge1,
                   input, all_data, arg>>

\* the whole pipeline on small source tables
Init ==
    /\ pc = "start"
    /\ out \in BOOLEAN
    /\ norm \in BOOLEAN
    /\ files = NoFiles
    /\ data_all \in PipeTables
    /\ cpi_df \in PipeCpi
    /\ emp_data \in PipeEmp
    /\ gps_data \in PipeGps
    /\ ipi_data = NoFrame
    /\ merge1 = NoFrame
    /\ input = NoFrame
    /\ all_data = NoFrame
    /\ arg = NoFrame
    /\ stdout = <<>>
    /\ search = ""
    /\ result = <<>>

Next ==
    \/ Start
    \/ GenRealDollars(FALSE)
    \/ Load
    \/ Merge1
    \/ Merge2
    \/ Normalize
    \/ CategorizeSize
    \/ ToCsv

Spec == Init /\ [][Next]_vars

\* gen_real_dollars called on any municipal table and any CPI table
InitInfl ==
    /\ pc = "gen_real_dollars"
    /\ out = FALSE
    /\ norm = FALSE
    /\ files = NoFiles
    /\ data_all \in InflTables
    /\ cpi_df \in CpiTables
    /\ emp_data = NoFrame
    /\ gps_data = NoFrame
    /\ ipi_data = NoFrame
    /\ merge1 = NoFrame
    /\ input = NoFrame
    /\ all_data = NoFrame
    /\ arg = NoFrame
    /\ stdout = <<>>
    /\ search = ""
    /\ result = <<>>

NextInfl == \E o \in BOOLEAN : GenRealDollars(o)

SpecInfl == InitInfl /\ [][NextInfl]_vars

\* the two merges on any adjusted, employment and geographic tables
InitMerge ==
    /\ pc = "merge1"
    /\ out = FALSE
    /\ norm = FALSE
    /\ files = NoFiles
    /\ data_all = NoFrame
    /\ cpi_df = NoFrame
    /\ emp_data \in EmpTables
    /\ gps_data \in GpsTables
    /\ ipi_data \in FinTables
    /\ merge1 = NoFrame
    /\ input = NoFrame
    /\ all_data = NoFrame
    /\ arg = NoFrame
    /\ stdout = <<>>
    /\ search = ""
    /\ result = <<>>

NextMerge == Merge1 \/ Merge2

SpecMerge == InitMerge /\ [][NextMerge]_vars

\* normalize called on any merged table
InitNorm ==
    /\ pc = "normalize"
    /\ out = FALSE
    /\ norm = TRUE
    /\ files = NoFiles
    /\ data_all = NoFrame
    /\ cpi_df = NoFrame
    /\ emp_data = NoFrame
    /\ gps_data = NoFrame
    /\ ipi_data = NoFrame
    /\ merge1 = NoFrame
    /\ input \in NormTables
    /\ all_data = input
    /\ arg = NoFrame
    /\ stdout = <<>>
    /\ search = ""
    /\ result = <<>>

NextNorm == Normalize

SpecNorm == InitNorm /\ [][NextNorm]_vars

\* a caller passes the table normalize returned to normalize once more
NormalizeAgain ==
    /\ pc = "categorize_size"
    /\ norm
    /\ arg' = input
    /\ input' = normalize(input)
    /\ all_data' = input'
    /\ pc' = "renormalized"
    /\ UNCHANGED <<search, result, out, norm, files, data_all, cpi_df, emp_data, gps_data, ipi_data,
                   merge1, stdout>>

NextNorm2 == Normalize \/ NormalizeAgain

\* normalize(normalize(table)) on any merged table
SpecNorm2 == InitNorm /\ [][NextNorm2]_vars

\* all_data from the geographic merge on, for either value of norm; no
\* geographic row matches, so the merged rows are those of merge1
InitTail ==
    /\ pc = "merge2"
    /\ out = FALSE
    /\ norm \in BOOLEAN
    /\ files = NoFiles
    /\ data_all = NoFrame
    /\ cpi_df = NoFrame
    /\ emp_data = NoFrame
    /\ gps_data = DataFrame(gps_columns, <<>>)
    /\ ipi_data = NoFrame
    /\ merge1 \in TailTables
    /\ input = NoFrame
    /\ all_data = NoFrame
    /\ arg = NoFrame
    /\ stdout = <<>>
    /\ search = ""
    /\ result = <<>>

NextTail == Merge2 \/ Normalize \/ CategorizeSize

SpecTail == InitTail /\ [][NextTail]_vars

\* categorize_size called on any table
InitSize ==
    /\ pc = "categorize_size"
    /\ out = FALSE
    /\ norm = FALSE
    /\ files = NoFiles
    /\ data_all = NoFrame
    /\ cpi_df = NoFrame
    /\ emp_data = NoFrame
    /\ gps_data = NoFrame
    /\ ipi_data = NoFrame
    /\ merge1 = NoFrame
    /\ input \in SizeTables
    /\ all_data = input
    /\ arg = NoFrame
    /\ stdout = <<>>
    /\ search = ""
    /\ result = <<>>

NextSize == CategorizeSize

SpecSize == InitSize /\ [][NextSize]_vars

\* a caller passes the table categorize_size returned to categorize_size
\* once more
CategorizeAgain ==
    /\ pc = "return"
    /\ arg' = all_data
    /\ input' = categorize_size_input(all_data)
    /\ all_data' = categorize_size(all_data)
    /\ pc' = "recategorized"
    /\ UNCHANGED <<search, result, out, norm, files, data_all, cpi_df, emp_data, gps_data, ipi_data,
                   merge1, stdout>>

NextSize2 == CategorizeSize \/ CategorizeAgain

\* categorize_size(categorize_size(table)) on any table
SpecSize2 == InitSize /\ [][NextSize2]_vars

\* column labels of the tables searched, and the headers made of them
SearchLabels == {"Total_Crime_100k", "Population", "Total_Crime", "Name", "size"}

Headers ==
    {h \in SeqUpTo(SearchLabels, MaxSearchCols) :
        \A i, j \in 1..Len(h) : i # j => h[i] # h[j]}

SearchTables ==
    UNION {{DataFrame(h, r) : r \in SeqUpTo([Range(h) -> {NaN, Num(1)}], MaxSearchRows)} :
              h \in Headers}

\* patterns: in lower, upper and mixed case, with a ".", and matching nothing
Patterns == {"crime", "CRIME", "Pop", "t.t", "e", "zzz", "population_"}

InitSearch ==
    /\ pc = "return"
    /\ out = FALSE
    /\ norm = FALSE
    /\ files = NoFiles
    /\ data_all = NoFrame
    /\ cpi_df = NoFrame
    /\ emp_data = NoFrame
    /\ gps_data = NoFrame
    /\ ipi_data = NoFrame
    /\ merge1 = NoFrame
    /\ input \in SearchTables
    /\ all_data = input
    /\ arg = NoFrame
    /\ stdout = <<>>
    /\ search = ""
    /\ result = <<>>

\* search_all(data, search, silent) on the table all_data() returned
SearchAll ==
    /\ pc = "return"
    /\ \E s \in Patterns, silent \in BOOLEAN :
          /\ search' = s
          /\ result' = search_all(all_data, s)
          /\ stdout' = IF silent THEN stdout ELSE stdout \o result'
    /\ arg' = all_data
    /\ pc' = "searched"
    /\ UNCHANGED <<out, norm, files, data_all, cpi_df, emp_data, gps_data, ipi_data,
                   merge1, input, all_data>>

NextSearch == SearchAll

SpecSearch == InitSearch /\ [][NextSearch]_vars

-----------------------------------------------------------------------------
(* C1                                                                      *)

Sizes == {Str("rural"), Str("non-urban"), Str("urban"), NaN}

Categorized == pc \in {"to_csv", "return"}

\* the size the thresholds 2,500 and 50,000 give a population
SizeOf(pop) ==
    IF isnull(pop) THEN NaN
    ELSE IF pop[1] < 2500 * pop[2] THEN Str("rural")
    ELSE IF pop[1] < 50000 * pop[2] THEN Str("non-urban")
    ELSE Str("urban")

\* C1: in the table categorize_size returns, every row's size is one of
\* rural, non-urban, urban, missing, is the one the thresholds 2,500 and
\* 50,000 give the Population of that row of the table it was given (missing
\* only for a null Population), and is never the placeholder 'na'
C1_SizeByPopulation ==
    Categorized =>
        /\ NRows(all_data) = NRows(arg)
        /\ \A i \in 1..NRows(all_data) :
              /\ all_data.rows[i]["size"] \in Sizes
              /\ all_data.rows[i]["size"] = SizeOf(arg.rows[i]["Population"])
              /\ all_data.rows[i]["size"] # Str("na")
              /\ (isnull(all_data.rows[i]["size"]) <=> isnull(arg.rows[i]["Population"]))

\* a table with the boundary populations 2500 and 50000 has been classified
C1_Witness ==
    /\ Categorized
    /\ NRows(all_data) = 2
    /\ arg.rows[1]["Population"] = Num(2500)
    /\ arg.rows[2]["Population"] = Num(50000)
    /\ all_data.rows[1]["size"] = Str("non-urban")
    /\ all_data.rows[2]["size"] = Str("urban")

-----------------------------------------------------------------------------
(* C2, C3                                                                  *)

\* normalize has returned; arg holds the table as it was passed in
Normalized == pc = "categorize_size" /\ norm

Valid(x) == ~isnull(x) /\ x # Num(0)

IsInf(x) == ~isnull(x) /\ Len(x) = 2 /\ x[2] = 0

\* k * f / t for a denominator t that is neither null nor zero
Quotient(k, f, t) == IF isnull(f) THEN NaN ELSE Ratio(k * f[1] * t[2], f[2] * t[1])

\* C2: after normalize, in every row whose Total_Expenditure, Total_Revenue
\* and Population were non-null and non-zero, F_PerExp = 100 * F /
\* Total_Expenditure for each expenditure field F, F_PerRev = 100 * F /
\* Total_Revenue for each revenue field F and F_100k = 100000 * F /
\* Population for each rate field F
C2_NormalizedFeatures ==
    Normalized =>
        \A i \in 1..NRows(arg) :
            LET r == arg.rows[i]
                o == input.rows[i]
            IN  (Valid(r["Total_Expenditure"]) /\ Valid(r["Total_Revenue"])
                     /\ Valid(r["Population"])) =>
                    /\ \A F \in Range(exp_cols) :
                          o[F \o "_PerExp"] = Quotient(100, r[F], r["Total_Expenditure"])
                    /\ \A F \in Range(rev_cols) :
                          o[F \o "_PerRev"] = Quotient(100, r[F], r["Total_Revenue"])
                    /\ \A F \in Range(rate_cols) :
                          o[F \o "_100k"] = Quotient(100000, r[F], r["Population"])

\* a row with expenditure field 250 of a total of 1000 got 25, and with rate
\* field 50 for a population of 100000 got 50
C2_Witness ==
    /\ Normalized
    /\ \E i \in 1..NRows(arg) :
          /\ arg.rows[i]["Police_Prot_Direct_Exp"] = Num(250)
          /\ arg.rows[i]["Total_Expenditure"] = Num(1000)
          /\ Valid(arg.rows[i]["Total_Revenue"])
          /\ arg.rows[i]["Total_Crime"] = Num(50)
          /\ arg.rows[i]["Population"] = Num(100000)
          /\ input.rows[i]["Police_Prot_Direct_Exp_PerExp"] = Num(25)
          /\ input.rows[i]["Total_Crime_100k"] = Num(50)

\* C3: normalize returns a table of the same rows in which no *_PerExp or
\* *_PerRev field is infinite; every *_PerRev field of a row whose
\* Total_Revenue was 0 and every *_PerExp field of a row whose
\* Total_Expenditure was 0 is null, and a row with a non-zero total still
\* gets its percentages
C3_ZeroTotals ==
    Normalized =>
        /\ NRows(input) = NRows(arg)
        /\ \A i \in 1..NRows(arg) :
              LET r == arg.rows[i]
                  o == input.rows[i]
              IN  /\ \A F \in Range(exp_cols) :
                        /\ ~IsInf(o[F \o "_PerExp"])
                        /\ r["Total_Expenditure"] = Num(0) => isnull(o[F \o "_PerExp"])
                        /\ Valid(r["Total_Expenditure"]) =>
                              o[F \o "_PerExp"] = Quotient(100, r[F], r["Total_Expenditure"])
                  /\ \A F \in Range(rev_cols) :
                        /\ ~IsInf(o[F \o "_PerRev"])
                        /\ r["Total_Revenue"] = Num(0) => isnull(o[F \o "_PerRev"])
                        /\ Valid(r["Total_Revenue"]) =>
                              o[F \o "_PerRev"] = Quotient(100, r[F], r["Total_Revenue"])

\* a table with a zero-revenue row next to a row with revenue was normalized
C3_Witness ==
    /\ Normalized
    /\ NRows(arg) >= 2
    /\ arg.rows[1]["Total_Revenue"] = Num(0)
    /\ arg.rows[1]["Total_Expenditure"] = Num(0)
    /\ isnull(input.rows[1]["Property_Tax_PerRev"])
    /\ arg.rows[2]["Total_Revenue"] = Num(500)
    /\ input.rows[2]["Property_Tax_PerRev"] = Num(25)

-----------------------------------------------------------------------------
(* C4, C5, C6                                                              *)

\* gen_real_dollars has returned ipi_data for data_all and cpi_df
Adjusted == pc \notin {"start", "gen_real_dollars"} /\ data_all # NoFrame

\* the CPI table has one row per Year (the CPI table of the data model)
CpiUnique ==
    \A i, j \in 1..NRows(cpi_df) :
        cpi_df.rows[i]["Year"] = cpi_df.rows[j]["Year"] => i = j

CpiRowsOf(year) == {k \in 1..NRows(cpi_df) : cpi_df.rows[k]["Year"] = year}

\* the fields classified as financial: the selected catalog entries other
\* than the identifying fields
FinancialFields == Range(field_names) \ {"Name", "Year4"}

OtherFields == Range(names) \ FinancialFields

\* 1 + (257.346 - a) / a in closed form, 257.346 / a
Multiplier(a) == Ratio(257346 * a[2], 1000 * a[1])

\* v * m for a value v that may be null
Times(v, m) == IF isnull(v) THEN NaN ELSE Ratio(v[1] * m[1], v[2] * m[2])

\* C4: after inflation adjustment with a CPI table of one row per Year,
\* every financial field of a row whose Year4 has a CPI entry is its original value times 1 + (257.346 - Annual) /
\* Annual for that year's Annual; a CPI row's multiplier is 1 exactly when
\* its Annual is 257.346, and then the adjusted values are the original ones
C4_InflationMultiplier ==
    (Adjusted /\ CpiUnique) =>
        /\ \A k \in 1..NRows(cpi_df) :
              conv(cpi_df.rows[k]["Annual"]) = Num(1)
                  <=> cpi_df.rows[k]["Annual"] = Ratio(257346, 1000)
        /\ \A i \in 1..NRows(data_all) : \A k \in CpiRowsOf(data_all.rows[i]["Year4"]) :
              \A F \in FinancialFields :
                  /\ ipi_data.rows[i][F] =
                         Times(data_all.rows[i][F], Multiplier(cpi_df.rows[k]["Annual"]))
                  /\ cpi_df.rows[k]["Annual"] = Ratio(257346, 1000) =>
                         ipi_data.rows[i][F] = data_all.rows[i][F]

\* a row of a year whose Annual is half the reference index was doubled next
\* to a row of a year whose Annual is the reference index
C4_Witness ==
    /\ Adjusted
    /\ CpiUnique
    /\ NRows(data_all) = 2
    /\ \E k \in CpiRowsOf(data_all.rows[1]["Year4"]) :
          cpi_df.rows[k]["Annual"] = Ratio(128673, 1000)
    /\ \E k \in CpiRowsOf(data_all.rows[2]["Year4"]) :
          cpi_df.rows[k]["Annual"] = Ratio(257346, 1000)
    /\ data_all.rows[1]["Total_Revenue"] = Num(100)
    /\ ipi_data.rows[1]["Total_Revenue"] = Num(200)
    /\ ipi_data.rows[2]["Total_Expenditure"] = Num(1000)

\* C5: for a CPI table unique on Year, inflation adjustment returns one row
\* per input row in the input's order, and every field that is not
\* financial keeps in each row the value it had
C5_AdjustmentFrame ==
    (Adjusted /\ CpiUnique) =>
        /\ NRows(ipi_data) = NRows(data_all)
        /\ ipi_data.columns = data_all.columns
        /\ \A i \in 1..NRows(data_all) : \A c \in OtherFields :
              ipi_data.rows[i][c] = data_all.rows[i][c]

\* two rows of different cities were adjusted with a two-year CPI table, one
\* of them by a multiplier other than 1
C5_Witness ==
    /\ Adjusted
    /\ CpiUnique
    /\ NRows(cpi_df) = 2
    /\ NRows(ipi_data) = 2
    /\ ipi_data.rows[1]["Name"] = Str("Boise")
    /\ ipi_data.rows[2]["Name"] = Str("Nampa")
    /\ ipi_data.rows[1]["Total_Expenditure"] # data_all.rows[1]["Total_Expenditure"]

\* C6: with a CPI table of one row per Year, a row whose Year4 has no CPI
\* entry stays in the output with every
\* financial field null and every other field unchanged, and the rows of a
\* matched year are adjusted as they are without it
C6_UnmatchedYear ==
    (Adjusted /\ CpiUnique) =>
        /\ NRows(ipi_data) = NRows(data_all)
        /\ \A i \in 1..NRows(data_all) :
              IF CpiRowsOf(data_all.rows[i]["Year4"]) = {}
              THEN /\ \A F \in FinancialFields : isnull(ipi_data.rows[i][F])
                   /\ \A c \in OtherFields : ipi_data.rows[i][c] = data_all.rows[i][c]
              ELSE \A k \in CpiRowsOf(data_all.rows[i]["Year4"]) : \A F \in FinancialFields :
                       ipi_data.rows[i][F] =
                           Times(data_all.rows[i][F], Multiplier(cpi_df.rows[k]["Annual"]))

\* a row of a year without CPI entry was nulled ahead of a matched row that
\* was doubled
C6_Witness ==
    /\ Adjusted
    /\ CpiUnique
    /\ NRows(data_all) = 2
    /\ CpiRowsOf(data_all.rows[1]["Year4"]) = {}
    /\ data_all.rows[1]["Total_Revenue"] = Num(100)
    /\ isnull(ipi_data.rows[1]["Total_Revenue"])
    /\ ipi_data.rows[1]["Name"] = Str("Boise")
    /\ data_all.rows[2]["Total_Revenue"] = Num(100)
    /\ ipi_data.rows[2]["Total_Revenue"] = Num(200)

-----------------------------------------------------------------------------
(* C7, C8, C9                                                              *)

\* the employment merge has run on ipi_data and emp_data
Merged1 == pc \notin {"start", "gen_real_dollars", "load", "merge1"} /\ merge1 # NoFrame

\* the geographic merge has run on merge1 and gps_data
Merged2 == Merged1 /\ pc # "merge2"

\* the employment rows with the county and year of financial row i
EmpMatches(i) ==
    {j \in 1..NRows(emp_data) :
        /\ ipi_data.rows[i]["FIPS_County"] = emp_data.rows[j]["County FIPS Code"]
        /\ ipi_data.rows[i]["Year4"] = emp_data.rows[j]["County FIPS Year"]}

Pairs == {p \in (1..NRows(ipi_data)) \X (1..NRows(emp_data)) : p[2] \in EmpMatches(p[1])}

\* the row a financial row and an employment row make together
Paired(p) ==
    [c \in Range(names) \cup Range(emp_columns) |->
        IF c \in Range(names) THEN ipi_data.rows[p[1]][c] ELSE emp_data.rows[p[2]][c]]

\* C7: the employment merge yields exactly one row for each pair of a
\* financial row and an employment row with equal county and year (a
\* financial row with k matching employment rows gives k rows, one without
\* a match none) and an empty table when there is no such pair
C7_InnerJoin ==
    Merged1 =>
        /\ NRows(merge1) = Cardinality(Pairs)
        /\ merge1.columns = names \o emp_columns
        /\ \A p \in Pairs :
              Cardinality({n \in 1..NRows(merge1) : merge1.rows[n] = Paired(p)})
                  = Cardinality({q \in Pairs : Paired(q) = Paired(p)})
        /\ \A i \in 1..NRows(ipi_data) :
              Cardinality({n \in 1..NRows(merge1) :
                              \A c \in Range(names) : merge1.rows[n][c] = ipi_data.rows[i][c]})
                  = Cardinality({p \in Pairs :
                                    \A c \in Range(names) :
                                        ipi_data.rows[p[1]][c] = ipi_data.rows[i][c]})

\* a financial row matching two employment rows gave two rows and a financial
\* row matching none gave no row
C7_Witness ==
    /\ Merged1
    /\ NRows(ipi_data) = 2
    /\ Cardinality(EmpMatches(1)) = 2
    /\ EmpMatches(2) = {}
    /\ NRows(merge1) = 2
    /\ merge1.rows[1]["Employed"] = Num(10)
    /\ merge1.rows[2]["Employed"] = Num(20)

\* the geographic rows with exactly the Name of row n of the first merge
GpsMatches(n) == {g \in 1..NRows(gps_data) : gps_data.rows[g]["Name"] = merge1.rows[n]["Name"]}

\* row n of the first merge with the coordinates lat, long
Located(n, lat, long) ==
    [c \in DOMAIN merge1.rows[n] \cup {"latitude", "longitude"} |->
        CASE c = "latitude" -> lat
          [] c = "longitude" -> long
          [] OTHER -> merge1.rows[n][c]]

\* how often the row r occurs in the table leaving the second merge; the
\* columns normalization and classification add are not compared
Occurrences(r) ==
    Cardinality({k \in 1..NRows(all_data) : \A c \in DOMAIN r : all_data.rows[k][c] = r[c]})

\* C8: the geographic merge drops no row: a row whose Name is the Name of no
\* geographic row appears with null coordinates, a row whose Name is that of
\* g >= 1 geographic rows appears g times, once with each of their
\* coordinates, and names are compared exactly, case included
C8_LeftJoin ==
    Merged2 =>
        \A n \in 1..NRows(merge1) :
            LET same == {m \in 1..NRows(merge1) : merge1.rows[m] = merge1.rows[n]}
            IN  IF GpsMatches(n) = {}
                THEN /\ Occurrences(Located(n, NaN, NaN)) = Cardinality(same)
                     /\ Occurrences(merge1.rows[n]) = Cardinality(same)
                ELSE /\ Occurrences(merge1.rows[n]) = Cardinality(same) * Cardinality(GpsMatches(n))
                     /\ \A g \in GpsMatches(n) :
                           Occurrences(Located(n, gps_data.rows[g]["latitude"],
                                               gps_data.rows[g]["longitude"]))
                               = Cardinality(same)
                                   * Cardinality({h \in GpsMatches(n) :
                                        /\ gps_data.rows[h]["latitude"] = gps_data.rows[g]["latitude"]
                                        /\ gps_data.rows[h]["longitude"] = gps_data.rows[g]["longitude"]})

\* a row named boise kept null coordinates although Boise is a geographic
\* row, and a row named Boise got the coordinates of both rows named Boise
C8_Witness ==
    /\ Merged2
    /\ NRows(merge1) = 2
    /\ NRows(gps_data) = 2
    /\ merge1.rows[1]["Name"] = Str("boise")
    /\ merge1.rows[2]["Name"] = Str("Boise")
    /\ \A g \in 1..2 : gps_data.rows[g]["Name"] = Str("Boise")
    /\ NRows(all_data) = 3
    /\ isnull(all_data.rows[1]["latitude"])
    /\ all_data.rows[2]["latitude"] = Num(41)
    /\ all_data.rows[3]["latitude"] = Num(42)

\* the financial rows that have an employment match
Matched == {i \in 1..NRows(ipi_data) : EmpMatches(i) # {}}

\* C9 as stated: the merged table has as many rows as there are financial
\* rows with an employment match, whatever the geographic table contains
C9_RowCountOriginal == Merged2 => NRows(all_data) = Cardinality(Matched)

\* every matched financial row has one employment row and at most one
\* geographic row of its Name
NoFanOut ==
    \A i \in Matched :
        /\ Cardinality(EmpMatches(i)) = 1
        /\ Cardinality({g \in 1..NRows(gps_data) :
                           gps_data.rows[g]["Name"] = ipi_data.rows[i]["Name"]}) <= 1

\* C9 (amended): the merged table has as many rows as there are financial
\* rows with an employment match exactly when no matched financial row has
\* a second matching employment row or a second geographic row of its Name;
\* otherwise it has more rows
C9_RowCount ==
    Merged2 =>
        /\ NoFanOut <=> NRows(all_data) = Cardinality(Matched)
        /\ NRows(all_data) >= Cardinality(Matched)

\* with unique keys, one of two financial rows matched and the result has
\* one row, without coordinates
C9_Witness ==
    /\ Merged2
    /\ NoFanOut
    /\ NRows(ipi_data) = 2
    /\ Cardinality(Matched) = 1
    /\ NRows(all_data) = 1
    /\ isnull(all_data.rows[1]["latitude"])
    /\ NRows(gps_data) = 2

-----------------------------------------------------------------------------
(* C10                                                                     *)

IsPrefix(s, t) == Len(s) <= Len(t) /\ \A i \in 1..Len(s) : s[i] = t[i]

\* the progress lines of a complete run with the given flags
Progress(n, o) ==
    <<"Loading IPI data", "Adjusting for Inflation", "Getting GPS coordinates",
      "Getting employment data", "Merging IPI with employment data",
      "Merging with GPS data">>
    \o (IF n THEN <<"Creating normalized features (per-capita, percentages)">> ELSE <<>>)
    \o <<"Categorizing city sizes">>
    \o (IF o THEN <<"Writing complete dataset to ipi_final.csv">> ELSE <<>>)

Printed(line) == line \in Range(stdout)

HasColumn(df, c) == c \in Range(df.columns)

\* C10: the stages of all_data run in the order inflation adjustment,
\* employment merge, geographic merge, normalization, size classification,
\* each on the finished result of the one before; normalization runs exactly
\* when norm is true, size classification in every run, and the table is
\* written only when out is true and only once it is classified (the
\* adjusted table alone is never written)
C10_StageOrder ==
    /\ IsPrefix(stdout, Progress(norm, out))
    /\ pc = "return" => stdout = Progress(norm, out)
    /\ Printed("Merging IPI with employment data") => Adjusted
    /\ Printed("Merging with GPS data") => Merged1
    /\ Printed("Creating normalized features (per-capita, percentages)") =>
          /\ norm
          /\ Merged2
          /\ HasColumn(all_data, "Total_Crime_100k")
    /\ Printed("Categorizing city sizes") =>
          /\ Merged2
          /\ HasColumn(all_data, "size")
          /\ HasColumn(all_data, "Total_Crime_100k") <=> norm
    /\ files["ipi_final.csv"] # NoFrame =>
          /\ out
          /\ Printed("Categorizing city sizes")
          /\ files["ipi_final.csv"] = all_data
    /\ pc = "return" => (files["ipi_final.csv"] # NoFrame <=> out)
    /\ files["ipi_real2019.csv"] = NoFrame

\* a run with norm false and out true has returned: it classified and wrote
\* the table without normalizing it
C10_Witness ==
    /\ pc = "return"
    /\ ~norm
    /\ out
    /\ NRows(all_data) >= 1
    /\ HasColumn(all_data, "size")
    /\ ~HasColumn(all_data, "Total_Crime_100k")
    /\ files["ipi_final.csv"] = all_data

-----------------------------------------------------------------------------
(* C11                                                                     *)

\* C11: normalize only adds columns: every column of the table it was
\* given, Total_Expenditure, Total_Revenue and Population included, holds
\* in every row of the output the value it held in the input
C11_OriginalsUnchanged ==
    Normalized =>
        /\ NRows(input) = NRows(arg)
        /\ \A i \in 1..NRows(arg) : \A c \in Range(arg.columns) :
              input.rows[i][c] = arg.rows[i][c]

-----------------------------------------------------------------------------
(* C12                                                                     *)

\* the second of two normalize calls has returned; arg is the result of the first
Renormalized == pc = "renormalized"

\* C12: a second normalize on the table the first one returned divides the
\* same source fields again: every derived and every original field has in
\* every row the value it had after the first run
C12_NoCompounding ==
    Renormalized =>
        /\ input.columns = arg.columns
        /\ NRows(input) = NRows(arg)
        /\ \A i \in 1..NRows(arg) : \A c \in Range(arg.columns) :
              input.rows[i][c] = arg.rows[i][c]

\* normalize ran twice on a table with a percentage of 25, a zero total and
\* a population filled between two valid ones
C12_Witness ==
    /\ Renormalized
    /\ NRows(input) = 3
    /\ input.rows[1]["Police_Prot_Direct_Exp_PerExp"] = Num(25)
    /\ isnull(input.rows[2]["Total_Expenditure"])
    /\ input.rows[1]["Population"] = Num(50000)
    /\ input.rows[2]["Population"] = Num(75000)
    /\ input.rows[3]["Population"] = Num(100000)
    /\ input.rows[2]["Total_Crime_100k"] = Ratio(200, 3)

-----------------------------------------------------------------------------
(* C13                                                                     *)

\* the table as it left the geographic merge
MergedTable == gps_merge(merge1, gps_data)

\* C13: the size all_data gives a row, classifying after the optional
\* normalization, is the size the row gets when the merged table is
\* classified first and normalized afterwards
C13_OrderIndependent ==
    (Categorized /\ Merged2) =>
        LET first == normalize(categorize_size(MergedTable))
        IN  /\ NRows(all_data) = NRows(first)
            /\ \A i \in 1..NRows(all_data) :
                  all_data.rows[i]["size"] = first.rows[i]["size"]

-----------------------------------------------------------------------------
(* C14                                                                     *)

\* the second of two categorize_size calls has returned; arg is the table
\* the first one returned
Recategorized == pc = "recategorized"

\* C14: categorize_size applied to the table a first application returned
\* gives every row the size it had and changes no other column
C14_Idempotent ==
    Recategorized =>
        /\ all_data.columns = arg.columns
        /\ NRows(all_data) = NRows(arg)
        /\ \A i \in 1..NRows(arg) :
              /\ all_data.rows[i]["size"] = arg.rows[i]["size"]
              /\ \A c \in Range(arg.columns) \ {"size"} :
                    all_data.rows[i][c] = arg.rows[i][c]

\* a table with a rural row and a row of missing population was classified twice
C14_Witness ==
    /\ Recategorized
    /\ NRows(all_data) = 2
    /\ arg.rows[1]["size"] = Str("rural")
    /\ all_data.rows[1]["size"] = Str("rural")
    /\ isnull(arg.rows[2]["Population"])
    /\ isnull(all_data.rows[2]["size"])

-----------------------------------------------------------------------------
(* C15                                                                     *)

Searched == pc = "searched"

UpperOf(ch) ==
    IF \E i \in 1..Len(Lowercase) : Char(Lowercase, i) = ch
    THEN Char(Uppercase, CHOOSE i \in 1..Len(Lowercase) : Char(Lowercase, i) = ch)
    ELSE ch

\* the pattern occurs in the label at some offset, a "." standing for any
\* character and letters compared without regard to case
Found(pattern, label) ==
    \E o \in 0..(Len(label) - Len(pattern)) :
        \A i \in 1..Len(pattern) :
            \/ Char(pattern, i) = "."
            \/ UpperOf(Char(pattern, i)) = UpperOf(Char(label, o + i))

\* the position of label c in the header
Position(df, c) == CHOOSE i \in 1..Len(df.columns) : df.columns[i] = c

\* C15: search_all returns exactly the column names that match the pattern
\* ignoring letter case, in column order and each once, the empty sequence
\* when none matches, and leaves the table unchanged
C15_SearchAll ==
    Searched =>
        /\ \A c \in Range(arg.columns) : (c \in Range(result)) <=> Found(search, c)
        /\ Range(result) \subseteq Range(arg.columns)
        /\ \A i, j \in 1..Len(result) :
              i < j => Position(arg, result[i]) < Position(arg, result[j])
        /\ ((\A c \in Range(arg.columns) : ~Found(search, c)) => result = <<>>)
        /\ all_data = arg
        /\ input = arg

\* 'crime' over the columns Total_Crime_100k, Population
C15_Witness ==
    /\ Searched
    /\ search = "crime"
    /\ arg.columns = <<"Total_Crime_100k", "Population">>
    /\ NRows(arg) = 1
    /\ result = <<"Total_Crime_100k">>
    /\ all_data = arg

\* a pattern that no column matches gave the empty sequence
C15_WitnessNone ==
    /\ Searched
    /\ search = "zzz"
    /\ Len(arg.columns) = 2
    /\ result = <<>>

-----------------------------------------------------------------------------
(* C16                                                                     *)

\* the rows of df with a valid Population before row k, and after it
ValidBefore(df, k) == {i \in 1..(k - 1) : Valid(df.rows[i]["Population"])}

ValidAfter(df, k) == {j \in (k + 1)..NRows(df) : Valid(df.rows[j]["Population"])}

\* the point at row k of the straight line through the whole populations a at
\* row i and b at row j
Between(a, i, b, j, k) == Ratio(a[1] * (j - k) + b[1] * (k - i), j - i)

\* the table with its last two rows exchanged
LastTwoSwapped(df) ==
    LET n == NRows(df)
    IN  DataFrame(df.columns,
                  [i \in 1..n |-> IF i = n - 1 THEN df.rows[n]
                                  ELSE IF i = n THEN df.rows[n - 1]
                                  ELSE df.rows[i]])

\* C16: normalize divides by no zero Population: a row with a valid Population
\* keeps it, a row with a zero or null Population between two valid ones gets
\* the value on the line between the nearest valid rows by row position, the
\* *_100k fields are the quotient by that value, and the filled value depends
\* on the order of the rows
C16_PopulationFilled ==
    Normalized =>
        /\ \A k \in 1..NRows(arg) :
              LET given == arg.rows[k]["Population"]
                  filled == input.rows[k]["Population"]
                  before == ValidBefore(arg, k)
                  after == ValidAfter(arg, k)
              IN  /\ filled # Num(0)
                  /\ Valid(given) => filled = given
                  /\ (~Valid(given) /\ before # {} /\ after # {}) =>
                        LET i == CHOOSE x \in before : \A y \in before : y <= x
                            j == CHOOSE x \in after : \A y \in after : x <= y
                        IN  filled = Between(arg.rows[i]["Population"], i,
                                             arg.rows[j]["Population"], j, k)
                  /\ \A c \in Range(rate_cols) :
                        /\ ~IsInf(input.rows[k][c \o "_100k"])
                        /\ input.rows[k][c \o "_100k"] =
                              IF isnull(filled) THEN NaN
                              ELSE Quotient(100000, input.rows[k][c], filled)
        /\ \A n \in 3..NRows(arg) :
              LET last == arg.rows[n]["Population"]
                  gap == arg.rows[n - 1]["Population"]
                  first == ValidBefore(arg, n - 1)
              IN  (NRows(arg) = n /\ Valid(last) /\ ~Valid(gap) /\ first # {}
                     /\ \A i \in first : arg.rows[i]["Population"] # last) =>
                      normalize(LastTwoSwapped(arg)).rows[n]["Population"]
                          # input.rows[n - 1]["Population"]

\* populations 50000, 0, 100000: the zero became 75000 and 50 crimes are
\* 200/3 per 100k; with the last two rows exchanged the same row gets 100000
C16_Witness ==
    /\ Normalized
    /\ NRows(arg) = 3
    /\ arg.rows[1]["Population"] = Num(50000)
    /\ arg.rows[2]["Population"] = Num(0)
    /\ arg.rows[3]["Population"] = Num(100000)
    /\ arg.rows[2]["Total_Crime"] = Num(50)
    /\ input.rows[2]["Population"] = Num(75000)
    /\ input.rows[2]["Total_Crime_100k"] = Ratio(200, 3)
    /\ normalize(LastTwoSwapped(arg)).rows[3]["Population"] = Num(100000)

-----------------------------------------------------------------------------
(* C17                                                                     *)

\* C17: after categorize_size the table it was given has a size column
\* holding 'na' in every row, whatever size it held before, and is otherwise
\* unchanged; the computed sizes are in the returned table only
C17_InputMarked ==
    Categorized =>
        /\ HasColumn(input, "size")
        /\ NRows(input) = NRows(arg)
        /\ input.columns = IF HasColumn(arg, "size") THEN arg.columns
                           ELSE Append(arg.columns, "size")
        /\ \A i \in 1..NRows(arg) :
              /\ input.rows[i]["size"] = Str("na")
              /\ \A c \in Range(arg.columns) \ {"size"} : input.rows[i][c] = arg.rows[i][c]
              /\ all_data.rows[i]["size"] \in Sizes
              /\ all_data.rows[i]["size"] # input.rows[i]["size"]

\* a table that held the size urban for a population of 2499 was classified:
\* the table itself now holds 'na', the returned one rural
C17_Witness ==
    /\ Categorized
    /\ NRows(arg) >= 1
    /\ HasColumn(arg, "size")
    /\ arg.rows[1]["size"] = Str("urban")
    /\ arg.rows[1]["Population"] = Num(2499)
    /\ input.rows[1]["size"] = Str("na")
    /\ all_data.rows[1]["size"] = Str("rural")

====
